---- MODULE Spec2Model ----
(***************************************************************************)
(* Model of the vertebrae segmentation API (vertebrae-api/app).            *)
(*                                                                         *)
(* The shared state is the class-level registry of ModelFactory            *)
(* (_instances, _initialized) and the heap of model objects it points to.  *)
(* Callers are threads of control: each runs one call at a time            *)
(* (initialize_models, get_model, get_all_models_info, or one of the HTTP  *)
(* handlers of main.py) and the calls interleave statement by statement,   *)
(* because ModelFactory takes no lock.  What lies outside the repository   *)
(* (the weight download, the network constructors, the predictors) is the  *)
(* environment: each load_model call and each predict call draws its       *)
(* outcome from the outcomes the environment can produce.                  *)
(***************************************************************************)
EXTENDS Integers, Sequences, FiniteSets, TLC

(***************************************************************************)
(* Bounds of the model.                                                    *)
(***************************************************************************)
NumProcs == 2       \* callers; each makes one call (or sends one request)
MaxDet == 1         \* detections in one prediction batch
MaxSide == 2        \* rows and columns of a mask given to the codec
MaxBatch == 2       \* instances of a dictionary given to format_detections
MaxDraw == 2        \* detections given to draw_predictions_on_image
MaxCalls == 4       \* calls of download_model_from_s3 in one process

\* The callers, and the task that runs the application's lifespan.
Procs == 1 .. NumProcs
Server == 0
Tasks == Procs \cup {Server}

(***************************************************************************)
(* Optional values: None is the empty sequence, Some(x) the one-element    *)
(* sequence.                                                               *)
(***************************************************************************)
None == << >>
Some(x) == << x >>

\* ModelType enum (str, Enum): the members' values.
YOLO == "yolo"
MASKRCNN == "maskrcnn"
ModelTypes == {YOLO, MASKRCNN}

\* ModelType(value): the member whose value is `value`, else ValueError.
ModelType(value) ==
  IF value \in ModelTypes THEN [exc |-> "none", member |-> value]
                          ELSE [exc |-> "ValueError", member |-> ""]

\* Python truthiness of an Optional[str]: None and "" are falsy.
Truthy(o) == o # None /\ o[1] # ""

\* `ModelType(model) if model else None` of the handlers.
ParseModelQuery(model) ==
  IF Truthy(model)
    THEN LET r == ModelType(model[1]) IN
         IF r.exc = "none" THEN [exc |-> "none", model_type |-> Some(r.member)]
                           ELSE [exc |-> "ValueError", model_type |-> None]
    ELSE [exc |-> "none", model_type |-> None]

\* Query strings a client can send in ?model=..., and the omitted parameter.
ModelQueries == {None, Some("yolo"), Some("maskrcnn"), Some("bogus"), Some("")}

\* settings.default_model is a str read from the environment: the two
\* documented options, and a value that is no ModelType value.
DefaultModels == {"yolo", "maskrcnn", "bogus"}

\* settings.vertebrae_classes
vertebrae_classes ==
  << "T1", "T2", "T3", "T4", "T5", "T6", "T7", "T8", "T9", "T10", "T11", "T12",
     "L1", "L2", "L3", "L4", "L5" >>

VARIABLES
  default_model,   \* settings.default_model
  phase,           \* "library": no lifespan ran; "startup", "serving", "startup_failed"
  _initialized,    \* ModelFactory._initialized
  _instances,      \* ModelFactory._instances: ModelType -> object id
  heap,            \* model objects: id -> [cls, _model_loaded, _model]
  loadCalls,       \* model type -> load_model executions
  failedLoads,     \* model types whose load_model has raised
  pc,              \* position of each caller
  op,              \* the call each caller runs
  arg,             \* the call's model argument (query string or Optional[ModelType])
  model_type,      \* get_model's / the handler's local model_type
  local,           \* initialize_models' local yolo_model / maskrcnn_model (object id)
  ret,             \* the call's result
  startedInit,     \* _initialized as it was when the call began
  callLoads,       \* load_model executions of the current call
  upload,          \* the request's uploaded bytes: "empty", "bad", "good"
  status,          \* the request's HTTP status (0: none yet)
  detail,          \* the detail of the request's HTTPException ("": none)
  content,         \* what a response that is no HTTPException carries
  decodeCalls,     \* load_image_from_bytes invocations of the current request
  batch,           \* predictions returned by model.predict
  predictCalls,    \* model.predict invocations of the current request
  fd,              \* a format_detections call: its predictions and result
  codec,           \* a mask codec call: mask, RLE record, decoded mask
  render,          \* draw_predictions_on_image calls: arguments and results
  s3               \* download_model_from_s3: the cache file and its callers

registry == << _initialized, _instances, heap >>
history == << loadCalls, failedLoads >>
frame == << pc, op, arg, model_type, local, ret, startedInit, callLoads >>
request == << upload, status, detail, content, decodeCalls, batch, predictCalls >>
request_rest == << upload, decodeCalls, batch, predictCalls >>
app_vars == << default_model, phase, registry, history, frame, request >>
utils_vars == << fd, codec, render, s3 >>
vars == << app_vars, utils_vars >>

NoRet == [kind |-> "none", obj |-> 0]
NoBatch ==
  [kind |-> "none", model_type |-> "", num_detections |-> 0,
   processing_time_ms |-> 0,
   boxes |-> << >>, scores |-> << >>, classes |-> << >>, masks |-> << >>]

\* The content of a response: the fields of a HealthResponse, or the headers
\* of the image response of /predict/visualize, as <<name, value>> pairs.
Content(kind, health, model_loaded, headers) ==
  [kind |-> kind, status |-> health, model_loaded |-> model_loaded, headers |-> headers]
NoContent == Content("none", "", FALSE, << >>)


(***************************************************************************)
(* Initial state: the module-level state of factory.py after import.       *)
(***************************************************************************)
\* No call of the utility functions is under way.
NoCall == [stage |-> "idle"]

InitUtils ==
  /\ fd = NoCall
  /\ codec = NoCall
  /\ render = NoCall
  /\ s3 = NoCall

InitApp ==
  /\ default_model \in DefaultModels
  /\ _initialized = FALSE
  /\ _instances = << >>
  /\ heap = << >>
  /\ loadCalls = [m \in ModelTypes |-> 0]
  /\ failedLoads = {}
  /\ pc = [p \in Tasks |-> "idle"]
  /\ op = [p \in Tasks |-> "none"]
  /\ arg = [p \in Tasks |-> None]
  /\ model_type = [p \in Tasks |-> None]
  /\ local = [p \in Tasks |-> 0]
  /\ ret = [p \in Tasks |-> NoRet]
  /\ startedInit = [p \in Tasks |-> FALSE]
  /\ callLoads = [p \in Tasks |-> 0]
  /\ upload = [p \in Tasks |-> "none"]
  /\ status = [p \in Tasks |-> 0]
  /\ detail = [p \in Tasks |-> ""]
  /\ content = [p \in Tasks |-> NoContent]
  /\ decodeCalls = [p \in Tasks |-> 0]
  /\ batch = [p \in Tasks |-> NoBatch]
  /\ predictCalls = [p \in Tasks |-> 0]

InitCommon == InitApp /\ InitUtils

\* The factory used without the application lifespan (direct callers, or a
\* test client that does not run startup): the first get_model initializes.
Init == InitCommon /\ phase = "library"

(***************************************************************************)
(* Control transfer of one caller: new position, result and HTTP status.   *)
(***************************************************************************)
Goto(p, where) ==
  /\ pc' = [pc EXCEPT ![p] = where]
  /\ UNCHANGED << ret, status, detail, content >>

Return(p, r) ==
  /\ pc' = [pc EXCEPT ![p] = "done"]
  /\ ret' = [ret EXCEPT ![p] = r]
  /\ UNCHANGED << status, detail, content >>

\* The routes that use a model: POST /predict, POST /predict/visualize and
\* GET /model-info.
Handlers == {"predict", "predict_visualize", "model_info"}

\* The response, or the HTTPException with its detail (the constant part of
\* the message, before the interpolated text).
RespondWith(p, code, text) ==
  /\ pc' = [pc EXCEPT ![p] = "done"]
  /\ status' = [status EXCEPT ![p] = code]
  /\ detail' = [detail EXCEPT ![p] = text]
  /\ UNCHANGED << ret, content >>

\* A response that is built by the handler and returned (status 200).
RespondOk(p, c) ==
  /\ pc' = [pc EXCEPT ![p] = "done"]
  /\ status' = [status EXCEPT ![p] = 200]
  /\ content' = [content EXCEPT ![p] = c]
  /\ UNCHANGED << ret, detail >>

\* The detail of the HTTPException raised for the model lookup (400) and in
\* the `except Exception` clause (500) of each route.
ErrorDetail(o, code) ==
  IF code = 400 THEN (IF o = "model_info" THEN "Invalid model type: "
                                          ELSE "Invalid model type ")
  ELSE IF code = 500
    THEN (IF o = "predict" THEN "Inference failed: "
          ELSE IF o = "predict_visualize" THEN "Visualization failed: "
          ELSE "Failed to retrieve model information: ")
  ELSE ""

Respond(p, code) == RespondWith(p, code, ErrorDetail(op[p], code))

\* Mutant of ExcStatus: the outer `except Exception` answers 400 as well.
ExcStatusAllClient(o, exc, where) == 400

\* The status a handler answers when `exc` escapes at `where` ("resolve": the
\* inner try around ModelType(model)/get_model; "inference": after it).
\* /predict and /predict/visualize catch ValueError around the model lookup
\* (400) and everything else in the outer `except Exception` (500);
\* /model-info catches ValueError (400) and then Exception (500).
ExcStatus(o, exc, where) ==
  IF o = "model_info"
    THEN (IF exc = "ValueError" THEN 400 ELSE 500)
    ELSE (IF where = "resolve" /\ exc = "ValueError" THEN 400 ELSE 500)

\* An exception leaving get_model (or initialize_models called by it).
RaiseFromFactory(p, exc) ==
  IF op[p] \in Handlers
    THEN Respond(p, ExcStatus(op[p], exc, "resolve"))
    ELSE IF op[p] = "lifespan"
      THEN Goto(p, "ls_except")
      ELSE Return(p, [kind |-> exc, obj |-> 0])

(***************************************************************************)
(* ModelFactory.initialize_models                                          *)
(***************************************************************************)
\* Outcomes of one load_model call: the body of its `try` runs to its end
\* ("ok"), or a statement of it raises ("fail").  The first statement calls
\* download_model_from_s3 with the keywords model_key and cache_filename;
\* utils.py defines the function without parameters, so with that definition
\* bound the call raises TypeError and the outcome is "fail" on every call.
\* "ok" is the outcome where the name is bound to a function that accepts
\* the call and the download and the network constructor succeed.
LoadOutcomes == {"ok", "fail"}

\* Mutant of LoadModel: the exception is logged but not re-raised and
\* _model_loaded is set after the try block, whatever happened in it.
LoadModelSwallows(cls, outcome) ==
  [raises |-> FALSE,
   obj |-> [cls |-> cls, _model_loaded |-> TRUE, _model |-> outcome = "ok"]]

\* load_model on a fresh object: on success the predictor is stored and
\* _model_loaded set; on any exception RuntimeError is raised and the object
\* keeps _model = None, _model_loaded = False.
LoadModel(cls, outcome) ==
  [raises |-> outcome # "ok",
   obj |-> [cls |-> cls, _model_loaded |-> outcome = "ok", _model |-> outcome = "ok"]]

\* initialize_models returned normally.
InitReturned(p) ==
  IF op[p] = "initialize_models" THEN Return(p, [kind |-> "returned", obj |-> 0])
  ELSE IF op[p] = "lifespan" THEN Goto(p, "ls_yield")
  ELSE Goto(p, "gm_lookup")

\* Mutant of ImCheck: the `if cls._initialized: return` guard is missing.
ImCheckNoGuard(p) ==
  /\ pc[p] = "im_check"
  /\ Goto(p, "im_yolo_load")
  /\ UNCHANGED << utils_vars, default_model, phase, registry, history,
                  op, arg, model_type, local, startedInit, callLoads, request_rest >>

\* `if cls._initialized: return`
ImCheck(p) ==
  /\ pc[p] = "im_check"
  /\ IF _initialized THEN InitReturned(p) ELSE Goto(p, "im_yolo_load")
  /\ UNCHANGED << utils_vars, default_model, phase, registry, history,
                  op, arg, model_type, local, startedInit, callLoads, request_rest >>

\* `m = Cls(); m.load_model()`: a RuntimeError aborts initialize_models, and
\* the object, referenced by the local alone, is gone with the frame.
ImLoad(p, cls, here, next) ==
  /\ pc[p] = here
  /\ \E outcome \in LoadOutcomes :
       LET r == LoadModel(cls, outcome) IN
       /\ loadCalls' = [loadCalls EXCEPT ![cls] = @ + 1]
       /\ callLoads' = [callLoads EXCEPT ![p] = @ + 1]
       /\ IF r.raises
            THEN /\ failedLoads' = failedLoads \cup {cls}
                 /\ RaiseFromFactory(p, "RuntimeError")
                 /\ UNCHANGED << heap, local >>
            ELSE /\ heap' = Append(heap, r.obj)
                 /\ local' = [local EXCEPT ![p] = Len(heap) + 1]
                 /\ UNCHANGED failedLoads
                 /\ Goto(p, next)
  /\ UNCHANGED << utils_vars, default_model, phase, _initialized, _instances,
                  op, arg, model_type, startedInit, request_rest >>

\* `cls._instances[ModelType.X] = m`
ImStore(p, cls, here, next) ==
  /\ pc[p] = here
  /\ _instances' = [x \in DOMAIN _instances \cup {cls} |->
                      IF x = cls THEN local[p] ELSE _instances[x]]
  /\ Goto(p, next)
  /\ UNCHANGED << utils_vars, default_model, phase, _initialized, heap, history,
                  op, arg, model_type, local, startedInit, callLoads, request_rest >>

ImLoadYolo(p) == ImLoad(p, YOLO, "im_yolo_load", "im_yolo_store")
ImStoreYolo(p) == ImStore(p, YOLO, "im_yolo_store", "im_maskrcnn_load")
ImLoadMaskrcnn(p) == ImLoad(p, MASKRCNN, "im_maskrcnn_load", "im_maskrcnn_store")
\* Mutant of ImStoreMaskrcnn: the Mask R-CNN instance is stored under the
\* key of YOLO.
ImStoreMaskrcnnAsYolo(p) == ImStore(p, YOLO, "im_maskrcnn_store", "im_set")
ImStoreMaskrcnn(p) == ImStore(p, MASKRCNN, "im_maskrcnn_store", "im_set")

\* `cls._initialized = True`, then return.
ImSetInitialized(p) ==
  /\ pc[p] = "im_set"
  /\ _initialized' = TRUE
  /\ InitReturned(p)
  /\ UNCHANGED << utils_vars, default_model, phase, _instances, heap, history,
                  op, arg, model_type, local, startedInit, callLoads, request_rest >>

(***************************************************************************)
(* ModelFactory.get_model                                                  *)
(***************************************************************************)
\* Mutant of ResolveDefault: the default is hard-coded instead of read from
\* the settings.
ResolveDefaultYolo(mt, dflt) ==
  IF mt = None THEN [exc |-> "none", model_type |-> Some(YOLO)]
               ELSE [exc |-> "none", model_type |-> mt]

\* `if model_type is None: model_type = ModelType(settings.default_model)`
ResolveDefault(mt, dflt) ==
  IF mt = None
    THEN LET r == ModelType(dflt) IN
         IF r.exc = "none" THEN [exc |-> "none", model_type |-> Some(r.member)]
                           ELSE [exc |-> "ValueError", model_type |-> None]
    ELSE [exc |-> "none", model_type |-> mt]

\* BaseSegmentationModel.is_loaded
is_loaded(obj) == obj._model_loaded

\* Lines 81-90 of get_model: the lookup in _instances and the is_loaded check.
GetModelResult(mt, insts, hp) ==
  IF mt \notin DOMAIN insts THEN [kind |-> "ValueError", obj |-> 0]
  ELSE IF ~is_loaded(hp[insts[mt]]) THEN [kind |-> "RuntimeError", obj |-> 0]
  ELSE [kind |-> "handle", obj |-> insts[mt]]

\* Entry of get_model: the default, then `if not cls._initialized:
\* cls.initialize_models()`.
GmEnter(p) ==
  /\ pc[p] = "gm_enter"
  /\ LET r == ResolveDefault(model_type[p], default_model) IN
     IF r.exc # "none"
       THEN RaiseFromFactory(p, r.exc) /\ UNCHANGED model_type
       ELSE /\ model_type' = [model_type EXCEPT ![p] = r.model_type]
            /\ Goto(p, IF ~_initialized THEN "im_check" ELSE "gm_lookup")
  /\ UNCHANGED << utils_vars, default_model, phase, registry, history,
                  op, arg, local, startedInit, callLoads, request_rest >>

\* The rest of get_model; a handler that gets its model goes on to use it.
GmLookup(p) ==
  /\ pc[p] = "gm_lookup"
  /\ LET r == GetModelResult(model_type[p][1], _instances, heap) IN
     IF r.kind # "handle" THEN RaiseFromFactory(p, r.kind)
     ELSE IF op[p] = "get_model" THEN Return(p, r)
     ELSE /\ pc' = [pc EXCEPT ![p] = IF op[p] = "model_info" THEN "h_info" ELSE "h_predict"]
          /\ ret' = [ret EXCEPT ![p] = r]
          /\ UNCHANGED << status, detail, content >>
  /\ UNCHANGED << utils_vars, default_model, phase, registry, history,
                  op, arg, model_type, local, startedInit, callLoads, request_rest >>

(***************************************************************************)
(* ModelFactory.get_all_models_info                                        *)
(***************************************************************************)
\* Mutant of AllModelsInfoKeys: the `if not cls._initialized` guard is missing.
AllModelsInfoKeysNoGuard(inited, insts, hp) ==
  {m \in DOMAIN insts : hp[insts[m]]._model_loaded}

\* The keys of the mapping get_all_models_info returns.
AllModelsInfoKeys(inited, insts, hp) ==
  IF ~inited THEN {}
  ELSE {m \in DOMAIN insts : is_loaded(hp[insts[m]])}

GetAllModelsInfo(p) ==
  /\ pc[p] = "info"
  /\ Return(p, [kind |-> "info", obj |-> 0,
                keys |-> AllModelsInfoKeys(_initialized, _instances, heap)])
  /\ UNCHANGED << utils_vars, default_model, phase, registry, history,
                  op, arg, model_type, local, startedInit, callLoads, request_rest >>

(***************************************************************************)
(* Callers.  Each caller makes one call; when the application runs under   *)
(* its lifespan, only once startup has completed.                          *)
(***************************************************************************)
\* (Callers are interchangeable: a call is given to the first idle one.)
Begin(p, o, a, where) ==
  /\ pc[p] = "idle"
  /\ \A q \in Procs : q < p => pc[q] # "idle"
  /\ phase \in {"library", "serving"}
  /\ op' = [op EXCEPT ![p] = o]
  /\ arg' = [arg EXCEPT ![p] = a]
  /\ startedInit' = [startedInit EXCEPT ![p] = _initialized]
  /\ Goto(p, where)
  /\ UNCHANGED << utils_vars, default_model, phase, registry, history,
                  local, callLoads, decodeCalls, batch, predictCalls >>

CallInitializeModels(p) ==
  /\ Begin(p, "initialize_models", None, "im_check")
  /\ UNCHANGED << model_type, upload >>

CallGetModel(p) ==
  \E mt \in {None} \cup {Some(m) : m \in ModelTypes} :
    /\ Begin(p, "get_model", mt, "gm_enter")
    /\ model_type' = [model_type EXCEPT ![p] = mt]
    /\ UNCHANGED upload

CallGetAllModelsInfo(p) ==
  /\ Begin(p, "get_all_models_info", None, "info")
  /\ UNCHANGED << model_type, upload >>

(***************************************************************************)
(* utils.py: the mask codec.  encode_mask_to_rle and decode_rle_to_mask    *)
(* hand the work to pycocotools (mask_util.encode / mask_util.decode); the *)
(* operators below follow its rleEncode, rleToString, rleFrString and      *)
(* rleDecode.                                                              *)
(*                                                                         *)
(* A mask is a 2D array [h, w, px]: px maps <<row, column>> to 0 or 1.     *)
(* Bytes and strings are sequences of character codes.                     *)
(***************************************************************************)
Mask(h, w, px) == [h |-> h, w |-> w, px |-> px]

\* The binary masks of h rows and w columns.
MasksOf(h, w) == {Mask(h, w, px) : px \in [(1 .. h) \X (1 .. w) -> {0, 1}]}

\* Every binary mask with at most MaxSide rows and columns.
Masks == UNION {MasksOf(h, w) : h \in 1 .. MaxSide, w \in 1 .. MaxSide}

\* Mutant of asfortranarray: the memory of the array in row-major (C)
\* order, each row left to right.
ascontiguousarray(mask) ==
  [j \in 1 .. mask.h * mask.w |->
     mask.px[<< ((j - 1) \div mask.w) + 1, ((j - 1) % mask.w) + 1 >>]]

\* np.asfortranarray(mask.astype(np.uint8)): the memory of the array in
\* column-major order, each column top to bottom.
asfortranarray(mask) ==
  [j \in 1 .. mask.h * mask.w |->
     mask.px[<< ((j - 1) % mask.h) + 1, ((j - 1) \div mask.h) + 1 >>]]

\* rleEncode: the lengths of the runs of equal values, the first run being a
\* run of zeros (of length 0 when the memory starts with a 1).
RECURSIVE rleEncodeFrom(_, _, _, _, _)
rleEncodeFrom(T, j, p, c, cnts) ==
  IF j > Len(T) THEN Append(cnts, c)
  ELSE IF T[j] # p THEN rleEncodeFrom(T, j + 1, T[j], 1, Append(cnts, c))
  ELSE rleEncodeFrom(T, j + 1, p, c + 1, cnts)

rleEncode(T) == rleEncodeFrom(T, 1, 0, 0, << >>)

\* rleToString, one count: groups of 5 bits, low group first, bit 0x20 set
\* while more groups follow, each group written as the character 48 + group.
RECURSIVE rleCountToString(_)
rleCountToString(x) ==
  LET c == x % 32
      y == x \div 32
      more == IF (c \div 16) % 2 = 1 THEN y # -1 ELSE y # 0
  IN  << (IF more THEN c + 32 ELSE c) + 48 >>
        \o (IF more THEN rleCountToString(y) ELSE << >>)

\* rleToString: from the fourth count on, a count is written as its
\* difference to the count two places before it.
RECURSIVE rleToStringFrom(_, _)
rleToStringFrom(cnts, i) ==
  IF i > Len(cnts) THEN << >>
  ELSE rleCountToString(IF i > 3 THEN cnts[i] - cnts[i - 2] ELSE cnts[i])
         \o rleToStringFrom(cnts, i + 1)

rleToString(cnts) == rleToStringFrom(cnts, 1)

\* bytes.decode('utf-8') and str.encode('utf-8') on the characters of a
\* counts string: codes below 128 are one byte each, the byte of that value.
Utf8Decode(bytes) == [i \in 1 .. Len(bytes) |-> bytes[i]]
Utf8Encode(str) == [i \in 1 .. Len(str) |-> str[i]]

\* encode_mask_to_rle(mask)
encode_mask_to_rle(mask) ==
  [size |-> << mask.h, mask.w >>,
   counts |-> Utf8Decode(rleToString(rleEncode(asfortranarray(mask))))]

RECURSIVE Pow32(_)
Pow32(k) == IF k = 0 THEN 1 ELSE 32 * Pow32(k - 1)

\* rleFrString, one count starting at character p: [x, next position].  The
\* byte after the last character is the string's terminating 0.
RECURSIVE rleCountFrString(_, _, _, _)
rleCountFrString(s, p, k, x) ==
  LET c == (IF p <= Len(s) THEN s[p] ELSE 0) - 48
      x1 == x + (c % 32) * Pow32(k)
      more == (c \div 32) % 2 = 1
  IN  IF more /\ p <= Len(s) THEN rleCountFrString(s, p + 1, k + 1, x1)
      ELSE [x |-> IF (c \div 16) % 2 = 1 THEN x1 - Pow32(k + 1) ELSE x1,
            next |-> p + 1]

\* rleFrString: every character sequence is read as counts; nothing is
\* rejected.  The counts are unsigned 32-bit integers; a count is kept here
\* as the signed reading of its 32 bits, so that a negative entry x stands
\* for the count 2^32 + x and the sums below are the sums modulo 2^32.
RECURSIVE rleFrStringFrom(_, _, _)
rleFrStringFrom(s, p, cnts) ==
  IF p > Len(s) THEN cnts
  ELSE LET r == rleCountFrString(s, p, 0, 0)
           m == Len(cnts)
           x == IF m > 2 THEN r.x + cnts[m - 1] ELSE r.x
       IN  rleFrStringFrom(s, r.next, Append(cnts, x))

rleFrString(s) == rleFrStringFrom(s, 1, << >>)

\* rleDecode at memory position j, looked up from run k on: run k holds the
\* value (k - 1) % 2; a position past the last run is not written (-1).
RECURSIVE rleValueAt(_, _, _)
rleValueAt(cnts, k, j) ==
  IF k > Len(cnts) THEN -1
  ELSE IF cnts[k] < 0 \/ j <= cnts[k] THEN (k - 1) % 2
  ELSE rleValueAt(cnts, k + 1, j - cnts[k])

\* Do the runs from run k on cover at most n cells?
RECURSIVE RunsFit(_, _, _)
RunsFit(cnts, k, n) ==
  IF k > Len(cnts) THEN TRUE
  ELSE IF cnts[k] < 0 \/ cnts[k] > n THEN FALSE
  ELSE RunsFit(cnts, k + 1, n - cnts[k])

\* The h x w arrays, Fortran-ordered, that mask_util.decode can return.
\* rleDecode writes the runs into a buffer that was allocated but not
\* initialized; a cell no run covers keeps what the memory held, shown here
\* as either 0 or 1.
rleDecode(cnts, h, w) ==
  LET cells == (1 .. h) \X (1 .. w)
      written == [rc \in cells |-> rleValueAt(cnts, 1, (rc[2] - 1) * h + rc[1])]
      open == {rc \in cells : written[rc] = -1}
  IN  {Mask(h, w, [rc \in cells |-> IF rc \in open THEN left[rc] ELSE written[rc]]) :
         left \in [open -> {0, 1}]}

\* What decode_rle_to_mask(rle) can do, rle being a dict with 'size' and
\* 'counts': the `str` counts are encoded to bytes and handed to
\* mask_util.decode; nothing is validated.  Runs that fit in h*w cells give
\* a mask.  Runs longer than h*w cells would be written past the buffer: a
\* pycocotools that checks the bound raises ValueError, one that does not
\* writes beyond the buffer (undefined behaviour: the call may return the
\* mask of the first h*w cells, or the process may crash).
decode_rle_to_mask(rle) ==
  LET cnts == rleFrString(Utf8Encode(rle.counts))
      h == rle.size[1]
      w == rle.size[2]
      returned == {[exc |-> "none", mask |-> m] : m \in rleDecode(cnts, h, w)}
  IN  IF RunsFit(cnts, 1, h * w)
        THEN returned
        ELSE {[exc |-> "ValueError", mask |-> Mask(0, 0, << >>)],
              [exc |-> "crash", mask |-> Mask(0, 0, << >>)]} \cup returned

(***************************************************************************)
(* utils.py: draw_predictions_on_image                                     *)
(*                                                                         *)
(* An image is [h, w, px]: px maps <<row, column>> to the pixel, written   *)
(* as the sequence of what was painted on it, the original value first.    *)
(***************************************************************************)
\* The table of a set of up to four strings (8 slots, "" an unused slot).
SetSlots == 0 .. 7
EmptySetTable == [i \in SetSlots |-> ""]

\* CPython set_add_entry, the probe from slot i: an unused slot is taken,
\* else the next slot is (i * 5 + 1 + perturb) & mask with perturb >>= 5.
RECURSIVE SetProbe(_, _, _)
SetProbe(table, i, perturb) ==
  IF table[i] = "" THEN i
  ELSE SetProbe(table, (i * 5 + 1 + (perturb \div 32)) % 8, perturb \div 32)

SetAdd(table, key, hash) ==
  IF \E i \in SetSlots : table[i] = key THEN table
  ELSE [table EXCEPT ![SetProbe(table, hash % 8, hash)] = key]

\* set(classes): the labels are added in list order.
RECURSIVE SetOf(_, _, _)
SetOf(classes, hashes, table) ==
  IF classes = << >> THEN table
  ELSE SetOf(Tail(classes), hashes, SetAdd(table, Head(classes), hashes[Head(classes)]))

\* Iteration over a set: the used slots in table order.
RECURSIVE SetIterFrom(_, _)
SetIterFrom(table, i) ==
  IF i > 7 THEN << >>
  ELSE (IF table[i] = "" THEN << >> ELSE << table[i] >>) \o SetIterFrom(table, i + 1)

SetIter(classes, hashes) == SetIterFrom(SetOf(classes, hashes, EmptySetTable), 0)

\* `np.random.seed(42)`, then one np.random.randint(0, 255, 3) per label of
\* set(classes), in the set's iteration order.  A colour is written as the
\* place of its draw in the stream of the seed.  rng is the state of the
\* global generator before, and in the result after, the call.
ClassColors(classes, hashes, rng) ==
  LET order == SetIter(classes, hashes) IN
  [colors |-> [i \in 1 .. Len(order) |->
                 [cls |-> order[i], color |-> << 42, i >>]],
   rng |-> [seed |-> 42, pos |-> Len(order)]]

\* colors[cls]
ColorOf(colors, cls) ==
  LET i == CHOOSE i \in 1 .. Len(colors) : colors[i].cls = cls IN colors[i].color

Min(a, b) == IF a <= b THEN a ELSE b

\* zip(boxes, masks, scores, classes): as many entries as the shortest list.
ZipLen(a) == Min(Min(Len(a.boxes), Len(a.masks)), Min(Len(a.scores), Len(a.classes)))

\* Mutant of Skipped: a score equal to the threshold is skipped too.
SkippedAtThreshold(score, score_threshold) == score <= score_threshold

\* `if score < score_threshold: continue`
Skipped(score, score_threshold) == score < score_threshold

\* What is painted on a pixel: by which drawing step, in which colour, and
\* for the label its text (class and score).
Paint(step, color, cls, score) == [step |-> step, color |-> color, cls |-> cls, score |-> score]

\* One iteration that draws: the mask blended in (`mask_overlay[mask > 0] =
\* color`, addWeighted), the outline of the box, the label background from
\* the box's top edge upwards and from its left edge to the right.  Pixel (x, y) is the cell <<y + 1, x + 1>>.
DrawOne(img, box, mask, score, cls, color) ==
  [h |-> img.h, w |-> img.w,
   px |-> [rc \in (1 .. img.h) \X (1 .. img.w) |->
     LET x == rc[2] - 1
         y == rc[1] - 1
         inBox == box[1] <= x /\ x <= box[3] /\ box[2] <= y /\ y <= box[4]
         onEdge == x \in {box[1], box[3]} \/ y \in {box[2], box[4]}
         p1 == IF mask.px[rc] > 0 THEN Append(img.px[rc], Paint("mask", color, "", 0))
                                  ELSE img.px[rc]
         p2 == IF inBox /\ onEdge THEN Append(p1, Paint("box", color, "", 0)) ELSE p1
     IN  IF x >= box[1] /\ y <= box[2]
           THEN Append(p2, Paint("label", color, cls, score))
           ELSE p2]]

\* The loop over the zipped lists from entry i on.  A mask whose shape is not
\* the image's makes the boolean index raise IndexError.
RECURSIVE DrawFrom(_, _, _, _, _)
DrawFrom(a, colors, i, annotated, drawn) ==
  IF i > ZipLen(a) THEN [exc |-> "none", annotated |-> annotated, drawn |-> drawn]
  ELSE IF Skipped(a.scores[i], a.score_threshold)
    THEN DrawFrom(a, colors, i + 1, annotated, drawn)
  ELSE IF a.masks[i].h # annotated.h \/ a.masks[i].w # annotated.w
    THEN [exc |-> "IndexError", annotated |-> annotated, drawn |-> drawn]
  ELSE DrawFrom(a, colors, i + 1,
                DrawOne(annotated, a.boxes[i], a.masks[i], a.scores[i], a.classes[i],
                        ColorOf(colors, a.classes[i])),
                Append(drawn, i))

\* Mutant of draw_predictions_on_image: `annotated = image`, without the
\* copy; what is drawn lands in the caller's image.
draw_predictions_in_place(a, hashes, rng) ==
  LET cc == ClassColors(a.classes, hashes, rng)
      r == DrawFrom(a, cc.colors, 1, a.image, << >>)
  IN  [exc |-> r.exc, image |-> r.annotated, annotated |-> r.annotated,
       drawn |-> r.drawn, colors |-> cc.colors, rng |-> cc.rng]

\* draw_predictions_on_image(image, boxes, masks, scores, classes,
\* score_threshold) with the arguments a: `annotated = image.copy()`, the
\* colours, the loop.  The result holds the caller's image as the call
\* leaves it, the returned image, the entries drawn and the colours used.
draw_predictions_on_image(a, hashes, rng) ==
  LET cc == ClassColors(a.classes, hashes, rng)
      r == DrawFrom(a, cc.colors, 1, a.image, << >>)
  IN  [exc |-> r.exc, image |-> a.image, annotated |-> r.annotated,
       drawn |-> r.drawn, colors |-> cc.colors, rng |-> cc.rng]

(***************************************************************************)
(* The predictors (YOLOModel, MaskRCNNModel)                               *)
(***************************************************************************)
\* Class indices a network can report, around the ends of the class table.
ClassSamples == {-1, 0, 5, 17}

\* Boxes [x1, y1, x2, y2] in pixels, and scores in hundredths (0.30, 0.95).
BoxSamples == {<< 0, 0, 1, 1 >>, << 1, 0, 2, 2 >>}
ScoreSamples == {30, 95}

\* Instance masks: one column of two rows, the upper or the lower cell set.
MaskSamples ==
  {Mask(2, 1, [rc \in (1 .. 2) \X (1 .. 1) |-> IF rc[1] = 1 THEN 1 ELSE 0]),
   Mask(2, 1, [rc \in (1 .. 2) \X (1 .. 1) |-> IF rc[1] = 2 THEN 1 ELSE 0])}

SeqsUpTo(S, n) == UNION {[1 .. k -> S] : k \in 0 .. n}

\* The guard of predict: `not self._model_loaded or self._model is None`.
PredictorReady(obj) == obj._model_loaded /\ obj._model

\* `(time.time() - start_time) * 1000`, in tenths of a millisecond.
ProcessingTime == 125

\* The image load_image_from_bytes decodes from an upload that is an image.
UploadedImage ==
  [h |-> 1, w |-> 1, px |-> [rc \in (1 .. 1) \X (1 .. 1) |-> << Paint("loaded", << 0, 0 >>, "", 0) >>]]

\* The dictionaries predict returns with up to n instances: boxes, scores and
\* classes have num_detections entries.  Mask R-CNN returns one mask per
\* instance; YOLO returns one mask per box or, when results.masks is None,
\* an empty array.
PredictedMasks(cls, MK, k) == [1 .. k -> MK] \cup (IF cls = YOLO THEN {<< >>} ELSE {})

Predictions(cls, C, B, S, MK, n) ==
  UNION {{[kind |-> "batch", model_type |-> cls, num_detections |-> k,
            processing_time_ms |-> ProcessingTime,
            boxes |-> b, scores |-> s, classes |-> c, masks |-> m] :
             b \in [1 .. k -> B], s \in [1 .. k -> S], c \in [1 .. k -> C],
             m \in PredictedMasks(cls, MK, k)} :
         k \in 0 .. n}

\* The masks a network returns for the uploaded image: yolo.py takes
\* results.masks.data, at the resolution the network ran at, which is the
\* image's or not; Mask R-CNN's pred_masks have the image's shape.
NetworkMasks(cls) ==
  {Mask(UploadedImage.h, UploadedImage.w,
        [rc \in (1 .. UploadedImage.h) \X (1 .. UploadedImage.w) |-> 1])}
  \cup (IF cls = YOLO THEN {Mask(2, 1, [rc \in (1 .. 2) \X (1 .. 1) |-> 1])} ELSE {})

\* What model.predict(image) can do on a loaded model: raise RuntimeError
\* (the network raised), or return a batch.  The handlers' requests see the
\* class indices vary; box, score and mask are one sample each.
PredictOutcomes(cls) ==
  {[kind |-> "raise", model_type |-> cls, num_detections |-> 0,
    processing_time_ms |-> 0,
    boxes |-> << >>, scores |-> << >>, classes |-> << >>, masks |-> << >>]}
  \cup
  Predictions(cls, ClassSamples, {<< 0, 0, 1, 1 >>}, {95}, NetworkMasks(cls), MaxDet)

\* Python list indexing seq[i]: negative indices count from the end.
PyInRange(seq, i) == -Len(seq) <= i /\ i < Len(seq)
PyIndex(seq, i) == IF i >= 0 THEN seq[i + 1] ELSE seq[Len(seq) + i + 1]

\* The mask a detection carries: Mask R-CNN encodes it to RLE, YOLO puts
\* mask.tolist() (a nested list, its rows).
MaskRepr(cls, mask) ==
  IF cls = MASKRCNN
    THEN [kind |-> "rle", value |-> encode_mask_to_rle(mask)]
    ELSE [kind |-> "list",
          value |-> [r \in 1 .. mask.h |-> [c \in 1 .. mask.w |-> mask.px[<< r, c >>]]]]

\* Iteration i of the loop of format_detections raises IndexError: the
\* masks array has no entry i, or the class table none at the class index.
FormatRaisesAt(b, i) ==
  i > Len(b.masks) \/ ~PyInRange(vertebrae_classes, b.classes[i])

\* Mutant of FormatDetections: detections under the confidence threshold
\* (0.50) are left out.
FormatDetectionsThresholded(b) ==
  LET keep == SelectSeq([i \in 1 .. b.num_detections |-> i],
                        LAMBDA i : b.scores[i] >= 50)
  IN  [exc |-> "none",
       detections |-> [j \in 1 .. Len(keep) |->
          [bbox |-> [x1 |-> b.boxes[keep[j]][1], y1 |-> b.boxes[keep[j]][2],
                     x2 |-> b.boxes[keep[j]][3], y2 |-> b.boxes[keep[j]][4]],
           mask |-> [kind |-> "rle", value |-> << >>],
           score |-> b.scores[keep[j]],
           class_name |-> PyIndex(vertebrae_classes, b.classes[keep[j]] % 17),
           class_id |-> b.classes[keep[j]]]]]

\* Mutant of FormatDetections: an index past the class table is clamped to
\* the last class instead of raising.
FormatDetectionsClamped(b) ==
  [exc |-> "none",
   detections |-> [i \in 1 .. b.num_detections |->
      [bbox |-> [x1 |-> b.boxes[i][1], y1 |-> b.boxes[i][2],
                 x2 |-> b.boxes[i][3], y2 |-> b.boxes[i][4]],
       mask |-> [kind |-> "rle", value |-> << >>],
       score |-> b.scores[i],
       class_name |-> IF b.classes[i] >= 17 THEN "L5"
                      ELSE PyIndex(vertebrae_classes, b.classes[i] % 17),
       class_id |-> b.classes[i]]]]

\* format_detections: IndexError at the first index whose mask or class
\* name does not exist (the list built so far is lost with the frame), else
\* one detection per index, in input order.
FormatDetections(b) ==
  IF \E i \in 1 .. b.num_detections : FormatRaisesAt(b, i)
    THEN [exc |-> "IndexError", detections |-> << >>]
    ELSE [exc |-> "none",
          detections |-> [i \in 1 .. b.num_detections |->
             [bbox |-> [x1 |-> b.boxes[i][1], y1 |-> b.boxes[i][2],
                        x2 |-> b.boxes[i][3], y2 |-> b.boxes[i][4]],
              mask |-> MaskRepr(b.model_type, b.masks[i]),
              score |-> b.scores[i],
              class_name |-> PyIndex(vertebrae_classes, b.classes[i]),
              class_id |-> b.classes[i]]]]

\* Detection(**det) of schemas.py: mask must validate as MaskRLE (a record
\* with size and counts), bbox coordinates are non-negative, score lies in
\* [0, 1] and class_id >= 0.
DetectionValid(det) ==
  /\ det.mask.kind = "rle"
  /\ \A x \in {det.bbox.x1, det.bbox.y1, det.bbox.x2, det.bbox.y2} : x >= 0
  /\ det.score \in 0 .. 100
  /\ det.class_id >= 0

\* `[settings.vertebrae_classes[i] for i in predictions["classes"]]`
VisualizeLabels(b) ==
  IF \E i \in 1 .. Len(b.classes) : ~PyInRange(vertebrae_classes, b.classes[i])
    THEN [exc |-> "IndexError", labels |-> << >>]
    ELSE [exc |-> "none",
          labels |-> [i \in 1 .. Len(b.classes) |-> PyIndex(vertebrae_classes, b.classes[i])]]

\* settings.confidence_threshold, in hundredths.
confidence_threshold == 50

\* draw_predictions_on_image as /predict/visualize calls it: the decoded
\* upload, the batch's boxes, masks and scores, the labels.  (Colours are
\* numbered by first occurrence here: they do not decide how the call ends.)
VisualizeDraw(b, labels) ==
  DrawFrom([image |-> UploadedImage, boxes |-> b.boxes, masks |-> b.masks,
            scores |-> b.scores, classes |-> labels,
            score_threshold |-> confidence_threshold],
           [i \in 1 .. Len(labels) |-> [cls |-> labels[i], color |-> << 42, i >>]],
           1, UploadedImage, << >>)

\* str() of a non-negative int: its decimal digits.
RECURSIVE PyStr(_)
PyStr(n) ==
  LET digit == << "0", "1", "2", "3", "4", "5", "6", "7", "8", "9" >>[(n % 10) + 1] IN
  IF n < 10 THEN << digit >> ELSE Append(PyStr(n \div 10), digit)

\* str() of a float given in tenths: the whole part, the point, one digit.
PyStrTenths(t) == PyStr(t \div 10) \o << "." >> \o PyStr(t % 10)

(***************************************************************************)
(* The HTTP handlers of main.py                                            *)
(***************************************************************************)
Uploads == {"empty", "bad", "good"}

\* The handlers are coroutines of one event loop: a handler gives up control
\* only at `await file.read()`, and from there to its response it runs
\* without another handler (or the lifespan) running in between.  A request
\* waits ("h_read") until the loop runs its handler; once its response is
\* sent the request is closed.
Suspended == {"idle", "h_read", "h_wait", "closed"}
EventLoopFree(p) == \A q \in Tasks \ {p} : pc[q] \in Suspended

\* A request arrives on the route of one of the handlers.
Request(p) ==
  \E o \in Handlers :
    /\ Begin(p, o, None, "h_read")
    /\ UNCHANGED << model_type, upload >>

\* Mutant of HValidate: the `if not image_bytes` check is missing and the
\* empty body goes to load_image_from_bytes, which cannot decode it.
HValidateNoEmptyCheck(p) ==
  /\ pc[p] = "h_read"
  /\ EventLoopFree(p)
  /\ \E m \in ModelQueries :
       /\ arg' = [arg EXCEPT ![p] = m]
       /\ IF op[p] = "model_info"
            THEN Goto(p, "h_model") /\ UNCHANGED << upload, decodeCalls >>
            ELSE \E u \in Uploads :
                   /\ upload' = [upload EXCEPT ![p] = u]
                   /\ decodeCalls' = [decodeCalls EXCEPT ![p] = @ + 1]
                   /\ IF u \in {"empty", "bad"}
                        THEN RespondWith(p, 400, "Invalid image format: ")
                        ELSE Goto(p, "h_model")
  /\ UNCHANGED << utils_vars, default_model, phase, registry, history,
                  op, model_type, local, startedInit, callLoads, batch, predictCalls >>

\* Mutant of HValidate: the ?model= parameter is parsed before the image is
\* decoded, and a parameter that names no model is what the response reports.
HValidateModelFirst(p) ==
  /\ pc[p] = "h_read"
  /\ EventLoopFree(p)
  /\ \E m \in ModelQueries :
       /\ arg' = [arg EXCEPT ![p] = m]
       /\ IF op[p] = "model_info"
            THEN Goto(p, "h_model") /\ UNCHANGED << upload, decodeCalls >>
            ELSE \E u \in Uploads :
                   /\ upload' = [upload EXCEPT ![p] = u]
                   /\ IF u = "empty"
                        THEN /\ RespondWith(p, 400, "Empty file uploaded")
                             /\ UNCHANGED decodeCalls
                        ELSE IF ParseModelQuery(m).exc # "none"
                          THEN /\ Respond(p, ExcStatus(op[p], "ValueError", "resolve"))
                               /\ UNCHANGED decodeCalls
                          ELSE /\ decodeCalls' = [decodeCalls EXCEPT ![p] = @ + 1]
                               /\ IF u = "bad"
                                    THEN RespondWith(p, 400, "Invalid image format: ")
                                    ELSE Goto(p, "h_model")
  /\ UNCHANGED << utils_vars, default_model, phase, registry, history,
                  op, model_type, local, startedInit, callLoads, batch, predictCalls >>

\* The loop runs the handler with the request's ?model= parameter.
\* /predict and /predict/visualize: file.read() delivers the body;
\* `if not image_bytes: 400`, then load_image_from_bytes: ValueError -> 400.
\* /model-info has no body.
HValidate(p) ==
  /\ pc[p] = "h_read"
  /\ EventLoopFree(p)
  /\ \E m \in ModelQueries :
       /\ arg' = [arg EXCEPT ![p] = m]
       /\ IF op[p] = "model_info"
            THEN Goto(p, "h_model") /\ UNCHANGED << upload, decodeCalls >>
            ELSE \E u \in Uploads :
                   /\ upload' = [upload EXCEPT ![p] = u]
                   /\ IF u = "empty"
                        THEN /\ RespondWith(p, 400, "Empty file uploaded")
                             /\ UNCHANGED decodeCalls
                        ELSE /\ decodeCalls' = [decodeCalls EXCEPT ![p] = @ + 1]
                             /\ IF u = "bad"
                                  THEN RespondWith(p, 400, "Invalid image format: ")
                                  ELSE Goto(p, "h_model")
  /\ UNCHANGED << utils_vars, default_model, phase, registry, history,
                  op, model_type, local, startedInit, callLoads, batch, predictCalls >>

\* The response is sent; the handler's frame is gone.
Finish(p) ==
  /\ pc[p] = "done"
  /\ pc' = [pc EXCEPT ![p] = "closed"]
  /\ op' = [op EXCEPT ![p] = "none"]
  /\ arg' = [arg EXCEPT ![p] = None]
  /\ model_type' = [model_type EXCEPT ![p] = None]
  /\ local' = [local EXCEPT ![p] = 0]
  /\ ret' = [ret EXCEPT ![p] = NoRet]
  /\ startedInit' = [startedInit EXCEPT ![p] = FALSE]
  /\ callLoads' = [callLoads EXCEPT ![p] = 0]
  /\ upload' = [upload EXCEPT ![p] = "none"]
  /\ status' = [status EXCEPT ![p] = 0]
  /\ detail' = [detail EXCEPT ![p] = ""]
  /\ content' = [content EXCEPT ![p] = NoContent]
  /\ decodeCalls' = [decodeCalls EXCEPT ![p] = 0]
  /\ batch' = [batch EXCEPT ![p] = NoBatch]
  /\ predictCalls' = [predictCalls EXCEPT ![p] = 0]
  /\ UNCHANGED << utils_vars, default_model, phase, registry, history >>

\* `model_type = ModelType(model) if model else None`, then get_model(model_type).
HResolve(p) ==
  /\ pc[p] = "h_model"
  /\ LET r == ParseModelQuery(arg[p]) IN
     IF r.exc # "none"
       THEN Respond(p, ExcStatus(op[p], r.exc, "resolve")) /\ UNCHANGED model_type
       ELSE /\ model_type' = [model_type EXCEPT ![p] = r.model_type]
            /\ Goto(p, "gm_enter")
  /\ UNCHANGED << utils_vars, default_model, phase, registry, history,
                  op, arg, local, startedInit, callLoads, request_rest >>

\* /model-info: `ModelInfo(**model_instance.get_model_info())`.
HInfo(p) ==
  /\ pc[p] = "h_info"
  /\ Respond(p, 200)
  /\ UNCHANGED << utils_vars, default_model, phase, registry, history,
                  op, arg, model_type, local, startedInit, callLoads, request_rest >>

\* Mutant of HPredict: a predictor that raises marks its model unloaded.
HPredictUnloads(p) ==
  /\ pc[p] = "h_predict"
  /\ predictCalls' = [predictCalls EXCEPT ![p] = @ + 1]
  /\ \E b \in PredictOutcomes(heap[ret[p].obj].cls) :
       /\ batch' = [batch EXCEPT ![p] = b]
       /\ IF b.kind = "raise"
            THEN /\ Respond(p, 500)
                 /\ heap' = [heap EXCEPT ![ret[p].obj]._model_loaded = FALSE]
            ELSE Goto(p, "h_format") /\ UNCHANGED heap
  /\ UNCHANGED << utils_vars, default_model, phase, _initialized, _instances, history,
                  op, arg, model_type, local, startedInit, callLoads,
                  upload, decodeCalls >>

\* `predictions = model_instance.predict(image)`
HPredict(p) ==
  /\ pc[p] = "h_predict"
  /\ predictCalls' = [predictCalls EXCEPT ![p] = @ + 1]
  /\ IF ~PredictorReady(heap[ret[p].obj])
       THEN Respond(p, ExcStatus(op[p], "RuntimeError", "inference")) /\ UNCHANGED batch
       ELSE \E b \in PredictOutcomes(heap[ret[p].obj].cls) :
              /\ batch' = [batch EXCEPT ![p] = b]
              /\ IF b.kind = "raise"
                   THEN Respond(p, ExcStatus(op[p], "RuntimeError", "inference"))
                   ELSE Goto(p, "h_format")
  /\ UNCHANGED << utils_vars, default_model, phase, registry, history,
                  op, arg, model_type, local, startedInit, callLoads,
                  upload, decodeCalls >>

\* The status of the rest of the handler. /predict: format_detections, then
\* Detection(**det) for each detection.  /predict/visualize: the labels, then
\* draw_predictions_on_image and image_to_bytes.
InferenceStatus(o, b) ==
  IF o = "predict"
    THEN LET f == FormatDetections(b) IN
         IF f.exc # "none" THEN ExcStatus(o, f.exc, "inference")
         ELSE IF \E i \in 1 .. Len(f.detections) : ~DetectionValid(f.detections[i])
           THEN ExcStatus(o, "ValidationError", "inference")
           ELSE 200
    ELSE LET v == VisualizeLabels(b) IN
         IF v.exc # "none" THEN ExcStatus(o, v.exc, "inference")
         ELSE IF VisualizeDraw(b, v.labels).exc # "none"
           THEN ExcStatus(o, VisualizeDraw(b, v.labels).exc, "inference")
           ELSE 200

\* Mutant of VisualizeHeaders: X-Num-Detections counts the detections that
\* were drawn, those at or above the confidence threshold.
VisualizeHeadersDrawn(b) ==
  << << "X-Num-Detections",
        PyStr(Len(VisualizeDraw(b, VisualizeLabels(b).labels).drawn)) >>,
     << "X-Processing-Time-Ms", PyStrTenths(b.processing_time_ms) >>,
     << "X-Model-Used", b.model_type >> >>

\* The headers of the image response of /predict/visualize; predictions
\* always has the key "model_type", so model_used is its value.
VisualizeHeaders(b) ==
  << << "X-Num-Detections", PyStr(b.num_detections) >>,
     << "X-Processing-Time-Ms", PyStrTenths(b.processing_time_ms) >>,
     << "X-Model-Used", b.model_type >> >>

\* The rest of the handler after predict, to its response.
HFormat(p) ==
  /\ pc[p] = "h_format"
  /\ IF op[p] = "predict_visualize" /\ InferenceStatus(op[p], batch[p]) = 200
       THEN RespondOk(p, Content("image", "", FALSE, VisualizeHeaders(batch[p])))
       ELSE Respond(p, InferenceStatus(op[p], batch[p]))
  /\ UNCHANGED << utils_vars, default_model, phase, registry, history,
                  op, arg, model_type, local, startedInit, callLoads, request_rest >>

\* A request arrives on GET /health and waits for the loop.
HealthRequest(p) ==
  /\ Begin(p, "health", None, "h_wait")
  /\ UNCHANGED << model_type, upload >>

\* health_check: `models_info = get_all_models_info()`, `all_loaded =
\* len(models_info) > 0`, and `except Exception` answers unhealthy.  main.py
\* imports get_model and ModelType alone from models.factory: where the name
\* get_all_models_info is not bound the call raises NameError, which the
\* handler catches.  The handler never awaits.
HHealth(p) ==
  /\ pc[p] = "h_wait"
  /\ EventLoopFree(p)
  /\ \E bound \in BOOLEAN :
       LET all_loaded == bound /\ AllModelsInfoKeys(_initialized, _instances, heap) # {} IN
       RespondOk(p, Content("health", IF all_loaded THEN "healthy" ELSE "unhealthy",
                            all_loaded, << >>))
  /\ UNCHANGED << utils_vars, default_model, phase, registry, history,
                  op, arg, model_type, local, startedInit, callLoads, request_rest >>

(***************************************************************************)
(* lifespan: the startup of the application.  main.py calls                *)
(* initialize_all_models(), the convenience function of models/factory.py  *)
(* that calls ModelFactory.initialize_models.  main.py imports get_model   *)
(* and ModelType alone from models.factory: where the name is bound the    *)
(* call runs initialize_models, where it is not the call raises NameError, *)
(* an Exception the `except` clause of lifespan catches all the same.      *)
(***************************************************************************)
LifespanStartup ==
  /\ phase = "startup"
  /\ EventLoopFree(Server)
  /\ pc[Server] = "idle"
  /\ op[Server] = "none"
  /\ op' = [op EXCEPT ![Server] = "lifespan"]
  /\ \E bound \in BOOLEAN :
       Goto(Server, IF bound THEN "im_check" ELSE "ls_except")
  /\ UNCHANGED << utils_vars, default_model, phase, registry, history,
                  arg, model_type, local, startedInit, callLoads, request_rest >>

\* initialize_all_models() returned: `yield`, the application serves.
LifespanYield ==
  /\ pc[Server] = "ls_yield"
  /\ phase' = "serving"
  /\ Return(Server, [kind |-> "returned", obj |-> 0])
  /\ UNCHANGED << utils_vars, default_model, registry, history,
                  op, arg, model_type, local, startedInit, callLoads, request_rest >>

\* Mutant of LifespanExcept: the exception is logged and not re-raised.
LifespanExceptSwallows ==
  /\ pc[Server] = "ls_except"
  /\ phase' = "serving"
  /\ Return(Server, [kind |-> "returned", obj |-> 0])
  /\ UNCHANGED << utils_vars, default_model, registry, history,
                  op, arg, model_type, local, startedInit, callLoads, request_rest >>

\* `except Exception as e: ... raise`: the startup fails.
LifespanExcept ==
  /\ pc[Server] = "ls_except"
  /\ phase' = "startup_failed"
  /\ Return(Server, [kind |-> "RuntimeError", obj |-> 0])
  /\ UNCHANGED << utils_vars, default_model, registry, history,
                  op, arg, model_type, local, startedInit, callLoads, request_rest >>

(***************************************************************************)
(* Spec: ModelFactory under concurrent callers (threads), no lifespan.     *)
(***************************************************************************)
FactoryStep(p) ==
  \/ ImCheck(p)
  \/ ImLoadYolo(p)
  \/ ImStoreYolo(p)
  \/ ImLoadMaskrcnn(p)
  \/ ImStoreMaskrcnn(p)
  \/ ImSetInitialized(p)
  \/ GmEnter(p)
  \/ GmLookup(p)

Next ==
  \E p \in Procs :
    \/ CallInitializeModels(p)
    \/ CallGetModel(p)
    \/ CallGetAllModelsInfo(p)
    \/ GetAllModelsInfo(p)
    \/ FactoryStep(p)

Spec == Init /\ [][Next]_vars

(***************************************************************************)
(* SpecHttp: the application.  It is served either under its lifespan      *)
(* (startup first, requests once it has completed) or by a client that     *)
(* does not run the lifespan (the first request initializes the models).   *)
(***************************************************************************)
InitHttp == InitCommon /\ phase \in {"startup", "library"}

NextHttp ==
  \/ LifespanStartup
  \/ LifespanYield
  \/ LifespanExcept
  \/ \E p \in Procs :
       \/ Request(p)
       \/ HealthRequest(p)
       \/ HHealth(p)
       \/ HValidate(p)
       \/ HResolve(p)
       \/ HInfo(p)
       \/ HPredict(p)
       \/ HFormat(p)
  \/ \E p \in Tasks :
       \/ FactoryStep(p)
       \/ Finish(p)

SpecHttp == InitHttp /\ [][NextHttp]_vars

(***************************************************************************)
(* SpecFormat: format_detections as a function of the dictionary predict   *)
(* returned, followed by what the /predict handler does with its result:   *)
(* each detection is validated as a Detection, then the response is sent.  *)
(***************************************************************************)
\* The rest of the state stays as constructed while a function of
\* app/utils.py or format_detections is applied to its arguments.
InitPure == InitApp /\ default_model = "yolo" /\ phase = "library"

\* The argument is any dictionary predict can return with up to MaxBatch
\* instances (the members of Predictions, drawn one component at a time).
InitFormat ==
  /\ InitPure
  /\ \E cls \in ModelTypes, k \in 0 .. MaxBatch :
       \E b \in [1 .. k -> BoxSamples], s \in [1 .. k -> ScoreSamples],
          c \in [1 .. k -> ClassSamples], m \in PredictedMasks(cls, MaskSamples, k) :
         fd = [stage |-> "input",
               predictions |-> [kind |-> "batch", model_type |-> cls,
                                num_detections |-> k,
                                processing_time_ms |-> ProcessingTime,
                                boxes |-> b, scores |-> s,
                                classes |-> c, masks |-> m]]
  /\ codec = NoCall
  /\ render = NoCall
  /\ s3 = NoCall

\* detections = model.format_detections(predictions)
FormatCall ==
  /\ fd.stage = "input"
  /\ fd' = [stage |-> "formatted", predictions |-> fd.predictions,
            result |-> FormatDetections(fd.predictions)]
  /\ UNCHANGED << app_vars, codec, render, s3 >>

\* `[Detection(**det) for det in detections]` and the response of /predict.
ValidateCall ==
  /\ fd.stage = "formatted"
  /\ fd' = [stage |-> "responded", predictions |-> fd.predictions,
            result |-> fd.result,
            accepted |-> [i \in 1 .. Len(fd.result.detections) |->
                            DetectionValid(fd.result.detections[i])],
            status |-> InferenceStatus("predict", fd.predictions)]
  /\ UNCHANGED << app_vars, codec, render, s3 >>

NextFormat ==
  \/ FormatCall
  \/ ValidateCall

SpecFormat == InitFormat /\ [][NextFormat]_vars

(***************************************************************************)
(* SpecCodec: encode_mask_to_rle and decode_rle_to_mask applied to a mask, *)
(* and decode_rle_to_mask applied to an RLE record received from outside.  *)
(***************************************************************************)
\* RLE records a caller can hand to decode_rle_to_mask: a size and a counts
\* string that need not belong together.
RleInputs ==
  {[size |-> << h, w >>, counts |-> encode_mask_to_rle(m).counts] :
     m \in Masks, h \in 1 .. MaxSide, w \in 1 .. MaxSide}

InitCodec ==
  /\ InitPure
  /\ \/ \E m \in Masks : codec = [stage |-> "mask", mask |-> m]
     \/ \E r \in RleInputs : codec = [stage |-> "rle", source |-> "caller", rle |-> r]
  /\ fd = NoCall
  /\ render = NoCall
  /\ s3 = NoCall

\* rle = encode_mask_to_rle(mask)
EncodeCall ==
  /\ codec.stage = "mask"
  /\ codec' = [stage |-> "rle", source |-> "encoded", mask |-> codec.mask,
               rle |-> encode_mask_to_rle(codec.mask)]
  /\ UNCHANGED << app_vars, fd, render, s3 >>

\* decode_rle_to_mask(rle)
DecodeCall ==
  /\ codec.stage = "rle"
  /\ \E o \in decode_rle_to_mask(codec.rle) :
       codec' = [codec EXCEPT !.stage = "decoded"] @@ [out |-> o]
  /\ UNCHANGED << app_vars, fd, render, s3 >>

NextCodec ==
  \/ EncodeCall
  \/ DecodeCall

SpecCodec == InitCodec /\ [][NextCodec]_vars

(***************************************************************************)
(* SpecDraw: draw_predictions_on_image applied to an image and the lists   *)
(* of a batch, then applied once more in the same process, to the same     *)
(* arguments or to the same detections listed in reverse order.            *)
(***************************************************************************)
\* The image: two rows and two columns, every pixel as loaded.
DrawImage == [h |-> 2, w |-> 2, px |-> [rc \in (1 .. 2) \X (1 .. 2) |-> << Paint("loaded", << 0, 0 >>, "", 0) >>]]

\* What a detection given to the renderer is made of: its box, its mask (of
\* the image's shape, or of another shape), its score (0.30, 0.50, 0.95) and
\* its label.
DrawBoxes == {<< 0, 0, 1, 1 >>}
DrawMasks ==
  {Mask(2, 2, [rc \in (1 .. 2) \X (1 .. 2) |-> IF rc[2] = 1 THEN 1 ELSE 0]),
   Mask(1, 1, [rc \in (1 .. 1) \X (1 .. 1) |-> 1])}
DrawScores == {30, 50, 95}
DrawLabels == {"T1", "L5"}
DrawThresholds == {50}

\* hash() of the labels: strings hash differently from process to process
\* (hash randomization).  Different labels have different hashes; 3 and 11
\* fall on the same slot of the table, 4 on another.
HashSamples == {3, 4, 11}
LabelHashes == {hs \in [DrawLabels -> HashSamples] : hs["T1"] # hs["L5"]}

\* The state of numpy's global generator before the first call: as seeded
\* when numpy was imported (seed 7 stands for that seed), or as an earlier
\* use of seed 42 left it.
RngSamples == {[seed |-> 7, pos |-> 0], [seed |-> 42, pos |-> 1]}

\* The arguments of a call: four parallel lists of up to MaxDraw entries.
DrawInputs ==
  UNION {{[image |-> DrawImage, boxes |-> b, masks |-> m, scores |-> s,
            classes |-> c, score_threshold |-> t] :
             b \in [1 .. k -> DrawBoxes], m \in [1 .. k -> DrawMasks],
             s \in [1 .. k -> DrawScores], c \in [1 .. k -> DrawLabels],
             t \in DrawThresholds} :
         k \in 0 .. MaxDraw}

Reverse(s) == [i \in 1 .. Len(s) |-> s[Len(s) + 1 - i]]

\* The same detections, listed in reverse order.
Reversed(a) ==
  [a EXCEPT !.boxes = Reverse(a.boxes), !.masks = Reverse(a.masks),
            !.scores = Reverse(a.scores), !.classes = Reverse(a.classes)]

InitDraw ==
  /\ InitPure
  /\ \E a \in DrawInputs, hs \in LabelHashes, g \in RngSamples :
       render = [stage |-> "input", args |-> a, hashes |-> hs, rng |-> g]
  /\ fd = NoCall
  /\ codec = NoCall
  /\ s3 = NoCall

\* annotated = draw_predictions_on_image(image, boxes, masks, scores, classes,
\* score_threshold)
DrawCall ==
  /\ render.stage = "input"
  /\ LET r == draw_predictions_on_image(render.args, render.hashes, render.rng) IN
       render' = [stage |-> "drawn", args |-> render.args, hashes |-> render.hashes,
                  rng |-> r.rng, first |-> r]
  /\ UNCHANGED << app_vars, fd, codec, s3 >>

\* The same call again, on the image as the first call left it.
DrawAgain ==
  /\ render.stage = "drawn"
  /\ LET a == [render.args EXCEPT !.image = render.first.image]
         r == draw_predictions_on_image(a, render.hashes, render.rng)
     IN  render' = [stage |-> "redrawn", args |-> render.args, hashes |-> render.hashes,
                    rng |-> r.rng, first |-> render.first, second |-> r]
  /\ UNCHANGED << app_vars, fd, codec, s3 >>

\* A second call with the detections in reverse order.
DrawPermuted ==
  /\ render.stage = "drawn"
  /\ LET a == Reversed([render.args EXCEPT !.image = render.first.image])
         r == draw_predictions_on_image(a, render.hashes, render.rng)
     IN  render' = [stage |-> "permuted", args |-> render.args, hashes |-> render.hashes,
                    rng |-> r.rng, first |-> render.first, second |-> r]
  /\ UNCHANGED << app_vars, fd, codec, s3 >>

NextDraw ==
  \/ DrawCall
  \/ DrawAgain
  \/ DrawPermuted

SpecDraw == InitDraw /\ [][NextDraw]_vars

(***************************************************************************)
(* SpecDownload: download_model_from_s3 called by the threads of one       *)
(* process, again and again, against one cache directory.  The function    *)
(* takes no lock: a call is a check of the cache file, then the fetch.     *)
(***************************************************************************)
\* MODEL_CACHE_DIR of the process; the file name is fixed.
CacheDirs == {"/tmp/models", "/mnt/cache"}
LocalPath(cache_dir) == << cache_dir, "model_final.pth" >>

NoPath == << >>

\* `def download_model_from_s3():` the function has no parameters.
DownloadParams == {}

\* The call sites: ModelService.load_model of app/model.py passes nothing;
\* YOLOModel.load_model and MaskRCNNModel.load_model pass the keywords
\* model_key and cache_filename.
DownloadCallers ==
  {[site |-> "model.py", kwargs |-> {}, cache_filename |-> ""],
   [site |-> YOLO, kwargs |-> {"model_key", "cache_filename"},
    cache_filename |-> "yolo_model.pt"],
   [site |-> MASKRCNN, kwargs |-> {"model_key", "cache_filename"},
    cache_filename |-> "maskrcnn_model.pth"]}

\* Python binds the arguments of a call before the body runs: a keyword
\* that names no parameter raises TypeError.
Binds(params, kwargs) == kwargs \subseteq params

InitDownload ==
  /\ InitPure
  /\ \E d \in CacheDirs, there \in BOOLEAN :
       s3 = [stage |-> "calls", cache_dir |-> d,
             cached |-> there,       \* local_path.exists()
             fetches |-> 0,          \* s3_client.download_file calls so far
             calls |-> 0,            \* calls begun so far
             returned |-> NoPath,    \* the path a completed call returned
             at |-> [p \in Procs |-> "idle"],
             after |-> [p \in Procs |-> FALSE],  \* begun after a call had returned
             fetched |-> [p \in Procs |-> 0],    \* fetches of the current call
             exists |-> [p \in Procs |-> "unchecked"],  \* what its check found
             site |-> [p \in Procs |-> ""],     \* the call site of the current call
             wanted |-> [p \in Procs |-> ""],   \* the cache_filename it passed
             exc |-> [p \in Procs |-> "none"],  \* what the call raised
             ret |-> [p \in Procs |-> NoPath]]
  /\ fd = NoCall
  /\ codec = NoCall
  /\ render = NoCall

\* A thread calls download_model_from_s3 from one of the call sites.  A
\* call whose arguments do not bind raises TypeError and the body of the
\* function is not entered.
DlBegin(p) ==
  /\ s3.at[p] \in {"idle", "returned", "raised"}
  /\ s3.calls < MaxCalls
  /\ \E c \in DownloadCallers :
       s3' = IF Binds(DownloadParams, c.kwargs)
               THEN [s3 EXCEPT !.at[p] = "check", !.calls = @ + 1,
                               !.after[p] = (s3.returned # NoPath),
                               !.fetched[p] = 0, !.exists[p] = "unchecked",
                               !.site[p] = c.site, !.wanted[p] = c.cache_filename,
                               !.exc[p] = "none", !.ret[p] = NoPath]
               ELSE [s3 EXCEPT !.at[p] = "raised", !.calls = @ + 1,
                               !.after[p] = FALSE,
                               !.fetched[p] = 0, !.exists[p] = "unchecked",
                               !.site[p] = c.site, !.wanted[p] = c.cache_filename,
                               !.exc[p] = "TypeError", !.ret[p] = NoPath]
  /\ UNCHANGED << app_vars, fd, codec, render >>

\* Mutant of DlCheck: the cache file is not looked at; every call goes on
\* to the download.
DlCheckAlwaysFetch(p) ==
  /\ s3.at[p] = "check"
  /\ s3' = [s3 EXCEPT !.at[p] = "fetch"]
  /\ UNCHANGED << app_vars, fd, codec, render >>

\* `if local_path.exists(): return str(local_path)`
DlCheck(p) ==
  /\ s3.at[p] = "check"
  /\ s3' = IF s3.cached
             THEN [s3 EXCEPT !.at[p] = "returned", !.exists[p] = "yes",
                             !.ret[p] = LocalPath(s3.cache_dir),
                             !.returned = LocalPath(s3.cache_dir)]
             ELSE [s3 EXCEPT !.at[p] = "fetch", !.exists[p] = "no"]
  /\ UNCHANGED << app_vars, fd, codec, render >>

\* s3_client.download_file(bucket, key, str(local_path)): the file is there
\* once the transfer has completed; a failed transfer leaves no file at
\* local_path, and the exception is logged and raised again.
DlFetch(p) ==
  /\ s3.at[p] = "fetch"
  /\ \E ok \in BOOLEAN :
       s3' = IF ok
               THEN [s3 EXCEPT !.at[p] = "returned", !.ret[p] = LocalPath(s3.cache_dir),
                               !.returned = LocalPath(s3.cache_dir),
                               !.cached = TRUE, !.fetches = @ + 1, !.fetched[p] = @ + 1]
               ELSE [s3 EXCEPT !.at[p] = "raised", !.exc[p] = "ClientError",
                               !.fetches = @ + 1, !.fetched[p] = @ + 1]
  /\ UNCHANGED << app_vars, fd, codec, render >>

NextDownload ==
  \E p \in Procs :
    \/ DlBegin(p)
    \/ DlCheck(p)
    \/ DlFetch(p)

SpecDownload == InitDownload /\ [][NextDownload]_vars

(***************************************************************************)
(* Properties                                                              *)
(***************************************************************************)
\* A caller takes a step.
Steps(p) == pc'[p] # pc[p]

\* The models whose load has completed and that count as ready: the
\* registry is initialized and a load_model of the model has built its
\* predictor.
ReadyModels ==
  {m \in ModelTypes :
     _initialized /\ \E i \in DOMAIN heap : heap[i].cls = m /\ heap[i]._model}

\* C1: single-flight initialization: while no load has failed, whatever the
\* interleaving of the concurrent first callers, load_model has been executed
\* at most once for each model identifier.
C1_SingleFlight ==
  failedLoads = {} => \A m \in ModelTypes : loadCalls[m] <= 1

\* C2: idempotence after success: a call of initialize_models that begins
\* once the registry is initialized returns at its first step, runs no
\* load_model and leaves _instances, _initialized and the model objects as
\* they were.
C2_IdempotentAfterSuccess ==
  [][\A p \in Tasks :
       (op[p] = "initialize_models" /\ startedInit[p] /\ Steps(p)) =>
         /\ pc'[p] = "done"
         /\ ret'[p].kind = "returned"
         /\ callLoads'[p] = 0
         /\ loadCalls' = loadCalls
         /\ registry' = registry]_vars

C2_Witness ==
  \E p \in Tasks :
    /\ op[p] = "initialize_models"
    /\ startedInit[p]
    /\ pc[p] = "done"
    /\ ret[p].kind = "returned"

\* C3: once the load of a model has raised during initialize_models, no
\* get_model call returns a model handle any more.
C3_NoHandleAfterFailedLoad ==
  [][\A p \in Tasks :
       failedLoads # {} => ~(ret'[p].kind = "handle" /\ ret[p].kind # "handle")]_vars

\* C4: a request whose ?model= string is present and is not a supported
\* identifier never gets past the resolution of its model: it is answered
\* 400 and never runs with the default model.
C4_UnknownModelRejected ==
  \A p \in Procs :
    (op[p] \in Handlers /\ arg[p] # None /\ arg[p][1] \notin ModelTypes) =>
      /\ pc[p] \in {"h_model", "done"}
      /\ pc[p] = "done" => status[p] = 400

\* C5: every model handle get_model has returned is a model whose load
\* completed: its predictor is built and is_loaded() is true.
C5_HandleIsLoaded ==
  \A p \in Tasks :
    ret[p].kind = "handle" =>
      /\ ret[p].obj \in DOMAIN heap
      /\ is_loaded(heap[ret[p].obj])
      /\ heap[ret[p].obj]._model

C5_Witness ==
  \E p \in Tasks :
    op[p] = "get_model" /\ pc[p] = "done" /\ ret[p].kind = "handle"

\* C6: when get_model is called with no identifier and returns a model, it
\* returns the model registered under settings.default_model: the handle a
\* call with that identifier given would return in the same state.
C6_DefaultModel ==
  [][\A p \in Tasks :
       (op[p] = "get_model" /\ arg[p] = None
          /\ ret'[p].kind = "handle" /\ ret[p].kind # "handle") =>
         /\ default_model \in DOMAIN _instances
         /\ ret'[p].obj = _instances[default_model]
         /\ heap[ret'[p].obj].cls = default_model]_vars

C6_Witness ==
  \E p \in Tasks :
    /\ op[p] = "get_model" /\ arg[p] = None /\ pc[p] = "done"
    /\ ret[p].kind = "handle"
    /\ default_model = MASKRCNN
    /\ heap[ret[p].obj].cls = MASKRCNN

\* C7: get_all_models_info returns the entries of exactly the ready models: a
\* model identifier is a key of the result if and only if the registry is
\* initialized and that model's load has completed.
C7_InfoListsReadyModels ==
  [][\A p \in Tasks :
       (pc[p] = "info" /\ Steps(p)) =>
         /\ ret'[p].kind = "info"
         /\ ret'[p].keys = ReadyModels]_vars

\* A call that returned an empty mapping although a model had been loaded
\* and registered (the other load failed).
C7_Witness ==
  \E p \in Tasks :
    /\ op[p] = "get_all_models_info" /\ pc[p] = "done"
    /\ ret[p].keys = {}
    /\ failedLoads # {}
    /\ DOMAIN _instances # {}

\* C8: on /predict and /predict/visualize a 400 is answered only to a
\* user-input error (empty or undecodable upload, unknown model identifier);
\* every other failure (models not ready, predictor raising, class index out
\* of range, detection that does not validate) is answered 500; nothing is
\* retried within the request.
\* The identifier a request resolves is its ?model= string or, when that is
\* omitted or empty, settings.default_model.
UnknownModelIdentifier(p) ==
  IF Truthy(arg[p]) THEN arg[p][1] \notin ModelTypes
                    ELSE default_model \notin ModelTypes

UserInputError(p) ==
  \/ upload[p] \in {"empty", "bad"}
  \/ UnknownModelIdentifier(p)

InferenceFailed(p) ==
  /\ batch[p].kind # "none"
  /\ \/ batch[p].kind = "raise"
     \/ \E i \in 1 .. Len(batch[p].classes) :
          batch[p].classes[i] >= Len(vertebrae_classes)
     \/ /\ op[p] = "predict"
        /\ \E i \in 1 .. Len(batch[p].classes) :
             batch[p].model_type = YOLO \/ batch[p].classes[i] < 0

C9_FailFastStartup ==
  phase # "library" =>
    /\ failedLoads # {} => phase # "serving"
    /\ (\E p \in Procs : pc[p] # "idle") => phase = "serving"
    /\ phase = "serving" =>
         /\ _initialized
         /\ \A m \in ModelTypes :
              m \in DOMAIN _instances /\ is_loaded(heap[_instances[m]])

C9_Witness ==
  /\ phase = "startup_failed"
  /\ failedLoads = {MASKRCNN}
  /\ YOLO \in DOMAIN _instances
  /\ ~_initialized

\* C10: a request whose inference fails (model.predict raises, or the
\* detections cannot be formatted) leaves the registry as it was:
\* _instances, _initialized and every model object, with its loaded flag.
C10_InferenceFailureIsolated ==
  [][\A p \in Procs :
       (pc[p] \in {"h_predict", "h_format"} /\ status'[p] = 500) =>
         registry' = registry]_vars

\* A request failed in model.predict while another request waits; the
\* model it used is still registered and loaded.
C10_Witness ==
  \E p \in Procs, q \in Procs :
    /\ pc[p] = "done" /\ status[p] = 500 /\ batch[p].kind = "raise"
    /\ pc[q] = "h_read"
    /\ is_loaded(heap[_instances[batch[p].model_type]])

\* The dictionary format_detections was called with, its number of
\* instances, and what the call did.
FormatArg == fd.predictions
FormatN == fd.predictions.num_detections
FormatResult == fd.result

\* C11: format_detections maps the batch element by element, in order and
\* without looking at the scores: for a batch of n instances whose class
\* indices lie in the class table and that has a mask per instance, the call
\* returns n detections, and detection i has the box, the score and the class
\* id of instance i and the class name the table holds at that class id.
C11_ElementWiseMap ==
  (/\ fd.stage \in {"formatted", "responded"}
   /\ Len(FormatArg.masks) = FormatN
   /\ \A i \in 1 .. FormatN : FormatArg.classes[i] \in -17 .. 16)
  => /\ FormatResult.exc = "none"
     /\ Len(FormatResult.detections) = FormatN
     /\ \A i \in 1 .. FormatN :
          LET det == FormatResult.detections[i]
              c == FormatArg.classes[i]
          IN  /\ << det.bbox.x1, det.bbox.y1, det.bbox.x2, det.bbox.y2 >> = FormatArg.boxes[i]
              /\ det.score = FormatArg.scores[i]
              /\ det.class_id = c
              /\ det.class_name = vertebrae_classes[IF c >= 0 THEN c + 1 ELSE 17 + c + 1]

\* Two instances with different boxes and classes, the first with a score
\* above and the second with a score below the confidence threshold, have
\* been formatted to two detections.
C11_Witness ==
  /\ fd.stage = "formatted"
  /\ FormatN = 2
  /\ FormatArg.scores = << 95, 30 >>
  /\ FormatArg.classes = << 5, 0 >>
  /\ FormatArg.boxes[1] # FormatArg.boxes[2]
  /\ Len(FormatResult.detections) = 2
  /\ FormatResult.detections[2].score = 30
  /\ FormatResult.detections[1].class_name = "T6"

\* C12: a class index of 17 or more anywhere in the batch makes
\* format_detections raise; the call yields no detection, neither those
\* built before the bad index nor one with the index clamped into the table.
C12_ClassIndexOutOfRange ==
  (/\ fd.stage \in {"formatted", "responded"}
   /\ \E i \in 1 .. FormatN : FormatArg.classes[i] >= 17)
  => /\ FormatResult.exc = "IndexError"
     /\ FormatResult.detections = << >>

\* The bad index is the second of two: the first instance is a valid one
\* with its mask, and the call raised.
C12_Witness ==
  /\ fd.stage = "formatted"
  /\ FormatN = 2
  /\ Len(FormatArg.masks) = 2
  /\ FormatArg.classes = << 0, 17 >>
  /\ FormatResult.exc = "IndexError"

\* C13: for YOLO and for Mask R-CNN, a detection of a batch with valid class
\* ids carries its mask as the RLE record encode_mask_to_rle(masks[i]), every
\* detection is accepted by the Detection schema, and /predict answers 200.
C13_MaskIsRle ==
  (/\ fd.stage = "responded"
   /\ FormatN >= 1
   /\ Len(FormatArg.masks) = FormatN
   /\ \A i \in 1 .. FormatN : FormatArg.classes[i] \in 0 .. 16)
  => /\ \A i \in 1 .. FormatN :
          /\ FormatResult.detections[i].mask.kind = "rle"
          /\ FormatResult.detections[i].mask.value = encode_mask_to_rle(FormatArg.masks[i])
          /\ fd.accepted[i]
     /\ fd.status = 200

\* The runs of the counts string of the record at hand.
CodecRuns == rleFrString(Utf8Encode(codec.rle.counts))
CodecCells == codec.rle.size[1] * codec.rle.size[2]

\* C14: round trip of the mask codec: decoding the record that
\* encode_mask_to_rle made of a binary mask m returns m, and the runs of the
\* record are the runs of m read column by column, each column top to
\* bottom, the first run being a run of zeros.
C14_RoundTrip ==
  (codec.stage \in {"rle", "decoded"} /\ codec.source = "encoded")
  => /\ codec.rle.size = << codec.mask.h, codec.mask.w >>
     /\ RunsFit(CodecRuns, 1, CodecCells)
     /\ \A r \in 1 .. codec.mask.h, c \in 1 .. codec.mask.w :
          rleValueAt(CodecRuns, 1, (c - 1) * codec.mask.h + r) = codec.mask.px[<< r, c >>]
     /\ codec.stage = "decoded"
          => codec.out = [exc |-> "none", mask |-> codec.mask]

\* A mask whose column-major and row-major readings differ and whose fourth
\* run is shorter than its second (a negative difference in the counts
\* string) has been encoded and decoded: rows [1 0] and [1 1].
C14_Witness ==
  /\ codec.stage = "decoded"
  /\ codec.source = "encoded"
  /\ codec.mask.h = 2
  /\ codec.mask.w = 2
  /\ << codec.mask.px[<< 1, 1 >>], codec.mask.px[<< 2, 1 >>],
        codec.mask.px[<< 1, 2 >>], codec.mask.px[<< 2, 2 >>] >> = << 1, 1, 0, 1 >>
  /\ CodecRuns = << 0, 2, 1, 1 >>
  /\ codec.out.mask = codec.mask

\* C15: decode_rle_to_mask raises, and returns no mask, whenever the run
\* lengths of the counts string do not sum to size[0] x size[1].  Stated for
\* the run lengths that sum to less, which leave the last cell of the array
\* uncovered: what happens to those that sum to more depends on the build of
\* pycocotools (see decode_rle_to_mask).
C15_MalformedRleFails ==
  (/\ codec.stage = "decoded"
   /\ RunsFit(CodecRuns, 1, CodecCells)
   /\ rleValueAt(CodecRuns, 1, CodecCells) = -1)
  => codec.out.exc = "ValueError"

\* The entries of the zipped lists the loop of the first call went through.
DrawEntries == 1 .. ZipLen(render.args)

\* C16: draw_predictions_on_image draws a detection exactly when its score is
\* at least the threshold: a score below it is skipped, a score equal to it
\* is drawn, and the detections drawn are drawn in input order.  Stated for a
\* call that returned: the list of the indices drawn is the list of the
\* indices whose score reaches the threshold, in increasing order.
C16_ThresholdFilter ==
  (render.stage = "drawn" /\ render.first.exc = "none")
  => /\ \A i \in DrawEntries :
          (\E k \in 1 .. Len(render.first.drawn) : render.first.drawn[k] = i)
            <=> render.args.scores[i] >= render.args.score_threshold
     /\ \A k \in 1 .. Len(render.first.drawn) - 1 :
          render.first.drawn[k] < render.first.drawn[k + 1]

\* Scores [0.95, 0.30] at threshold 0.5: exactly the first detection is
\* drawn; and a detection whose score equals the threshold is drawn.
C16_Witness ==
  /\ render.stage = "drawn"
  /\ render.first.exc = "none"
  /\ render.args.scores = << 95, 30 >>
  /\ render.args.score_threshold = 50
  /\ render.first.drawn = << 1 >>

\* C17: draw_predictions_on_image leaves the image it was given as it was
\* and returns an image of the same height and width, whatever the list of
\* detections (empty, or all under the threshold, included).
C17_InputImageUntouched ==
  render.stage = "drawn"
  => /\ render.first.image = render.args.image
     /\ render.first.exc = "none"
          => /\ render.first.annotated.h = render.args.image.h
             /\ render.first.annotated.w = render.args.image.w

\* A call that drew something: the returned image differs from the input,
\* which is as it was.
C17_Witness ==
  /\ render.stage = "drawn"
  /\ render.first.exc = "none"
  /\ render.first.drawn # << >>
  /\ render.first.annotated # render.args.image
  /\ render.first.image = render.args.image

\* Every label the first call drew has the same colour in both calls.
SameColors ==
  \A k \in 1 .. Len(render.first.drawn) :
    LET cls == render.args.classes[render.first.drawn[k]] IN
    ColorOf(render.first.colors, cls) = ColorOf(render.second.colors, cls)

\* C18: rendering is deterministic: the same call made twice gives the same
\* image, and the colour of a label depends on the set of labels alone, not
\* on the order of the detections or on what the process did before: a call
\* with the same detections in another order gives every label the colour
\* the first call gave it.
C18_ColorsFromLabelSet ==
  /\ (render.stage = "redrawn" /\ render.first.exc = "none")
       => render.second.annotated = render.first.annotated
  /\ render.stage \in {"redrawn", "permuted"} => SameColors

\* C19: download_model_from_s3 is idempotent.  A call begun after a call has
\* returned its path performs no fetch, does not raise, and returns that
\* same path; and a call that is about to fetch, or has fetched, found the
\* cache file missing when it looked.
C19_DownloadIdempotent ==
  \A p \in Procs :
    /\ s3.stage = "calls" /\ s3.after[p]
         => /\ s3.fetched[p] = 0
            /\ s3.at[p] \in {"check", "returned"}
            /\ s3.at[p] = "returned" => s3.ret[p] = s3.returned
    /\ s3.stage = "calls" /\ (s3.at[p] = "fetch" \/ s3.fetched[p] > 0)
         => s3.exists[p] = "no"

\* The cache was empty, one fetch filled it, and a call begun after that
\* has returned the path without fetching.
C19_Witness ==
  /\ s3.stage = "calls"
  /\ s3.fetches = 1
  /\ \E p \in Procs :
       /\ s3.after[p]
       /\ s3.at[p] = "returned"
       /\ s3.fetched[p] = 0
       /\ s3.ret[p] = LocalPath(s3.cache_dir)

\* C20: an empty upload on /predict or /predict/visualize is answered with
\* 400 'Empty file uploaded', and that before anything else is done for the
\* request: the image decoder has not been called, no model type has been
\* parsed, get_model has not been called (it has returned nothing and loaded
\* nothing) and no predictor has run.
C20_EmptyUploadRejected ==
  \A p \in Procs :
    upload[p] = "empty"
      => /\ op[p] \in {"predict", "predict_visualize"}
         /\ pc[p] = "done"
         /\ status[p] = 400
         /\ detail[p] = "Empty file uploaded"
         /\ decodeCalls[p] = 0
         /\ model_type[p] = None
         /\ ret[p] = NoRet
         /\ callLoads[p] = 0
         /\ predictCalls[p] = 0
         /\ batch[p] = NoBatch

\* A request on /predict/visualize with an empty body and a ?model=
\* parameter that names no model has been answered: the empty body is what
\* the response reports.
C20_Witness ==
  \E p \in Procs :
    /\ upload[p] = "empty"
    /\ op[p] = "predict_visualize"
    /\ arg[p] = Some("bogus")
    /\ status[p] = 400
    /\ detail[p] = "Empty file uploaded"

\* int() of a string of decimal digits.
RECURSIVE PyInt(_)
PyInt(digits) ==
  IF digits = << >> THEN 0
  ELSE 10 * PyInt(SubSeq(digits, 1, Len(digits) - 1))
       + (CHOOSE d \in 0 .. 9 :
            << "0", "1", "2", "3", "4", "5", "6", "7", "8", "9" >>[d + 1] = digits[Len(digits)])

\* The value of the header named name.
HeaderOf(headers, name) ==
  headers[CHOOSE i \in 1 .. Len(headers) : headers[i][1] = name][2]

\* C21: every successful response of POST /predict/visualize carries the
\* headers X-Num-Detections, X-Processing-Time-Ms and X-Model-Used, and
\* X-Num-Detections reads as the num_detections the predictor reported (the
\* count before any threshold filtering, whatever was drawn), X-Model-Used
\* is the model that predicted.
C21_VisualizeHeaders ==
  \A p \in Procs :
    (pc[p] = "done" /\ op[p] = "predict_visualize" /\ status[p] = 200)
      => /\ content[p].kind = "image"
         /\ {content[p].headers[i][1] : i \in 1 .. Len(content[p].headers)}
              = {"X-Num-Detections", "X-Processing-Time-Ms", "X-Model-Used"}
         /\ PyInt(HeaderOf(content[p].headers, "X-Num-Detections"))
              = batch[p].num_detections
         /\ HeaderOf(content[p].headers, "X-Model-Used") = batch[p].model_type
         /\ batch[p].model_type = heap[ret[p].obj].cls

\* A visualization has succeeded for a batch of one detection of which
\* nothing was drawn (YOLO reported a box and no masks): the header still
\* says one detection.
C21_Witness ==
  \E p \in Procs :
    /\ pc[p] = "done" /\ op[p] = "predict_visualize" /\ status[p] = 200
    /\ batch[p].num_detections = 1
    /\ batch[p].masks = << >>
    /\ HeaderOf(content[p].headers, "X-Num-Detections") = << "1" >>

\* Every supported model has a stored instance that reports is_loaded().
AllModelsLoaded ==
  \A m \in ModelTypes :
    m \in DOMAIN _instances /\ is_loaded(heap[_instances[m]])

\* C22: GET /health always answers successfully, with status 'healthy' or
\* 'unhealthy', never with an error.
C22_HealthAlwaysAnswers ==
  \A p \in Procs :
    (pc[p] = "done" /\ op[p] = "health")
      => /\ status[p] = 200
         /\ content[p].kind = "health"
         /\ content[p].status \in {"healthy", "unhealthy"}

\* C22: GET /health reports 'healthy' with model_loaded true exactly when
\* every supported model is loaded (stated for the application served
\* without its lifespan, where the first request initializes the models).
C22_HealthyIffAllLoaded ==
  \A p \in Procs :
    (phase = "library" /\ pc[p] = "done" /\ op[p] = "health")
      => ((content[p].status = "healthy" /\ content[p].model_loaded) <=> AllModelsLoaded)

\* C23: a registry entry is created once per process and never mutated
\* afterwards: once an instance is stored in _instances for an identifier,
\* no later step replaces it, and load_model is not run again for that
\* identifier (failed attempts followed by retries included).
C23_EntryNeverReplaced ==
  [][\A m \in DOMAIN _instances :
       /\ m \in DOMAIN _instances'
       /\ _instances'[m] = _instances[m]
       /\ loadCalls'[m] = loadCalls[m]]_vars

\* C24: FailedToLoad is terminal: once the load of a model has raised, no
\* later get_model or initialize_models attempts the load of that model
\* again, and the model does not become ready later.
C24_FailedToLoadTerminal ==
  [][\A m \in failedLoads :
       /\ loadCalls'[m] = loadCalls[m]
       /\ (m \in ReadyModels' => m \in ReadyModels)]_vars

\* C25: when a detection that survives the threshold has a mask whose shape
\* is not the image's, draw_predictions_on_image still renders: the call
\* returns an image and every surviving detection is drawn on it.
C25_MismatchedMaskRendered ==
  (/\ render.stage = "drawn"
   /\ \E i \in DrawEntries :
        /\ ~Skipped(render.args.scores[i], render.args.score_threshold)
        /\ \/ render.args.masks[i].h # render.args.image.h
           \/ render.args.masks[i].w # render.args.image.w)
  => /\ render.first.exc = "none"
     /\ \A i \in DrawEntries :
          ~Skipped(render.args.scores[i], render.args.score_threshold)
            => \E k \in 1 .. Len(render.first.drawn) : render.first.drawn[k] = i

\* C26: the cache file is keyed by the model: a load_model call of YOLO or
\* of Mask R-CNN to download_model_from_s3, with its model_key and
\* cache_filename, is accepted (it does not fail on its arguments), and the
\* path it returns is the file of its own cache_filename, so the two models
\* never share a cache file.
C26_CacheFilePerModel ==
  \A p \in Procs :
    (s3.stage = "calls" /\ s3.site[p] \in ModelTypes)
      => /\ s3.exc[p] # "TypeError"
         /\ s3.at[p] = "returned" => s3.ret[p] = << s3.cache_dir, s3.wanted[p] >>

\* C27: every batch predict returns has boxes, scores, classes and masks all
\* of length num_detections, also when the network reports boxes but no
\* masks.
C27_BatchListsAligned ==
  \A p \in Procs :
    batch[p].kind = "batch"
      => /\ Len(batch[p].boxes) = batch[p].num_detections
         /\ Len(batch[p].scores) = batch[p].num_detections
         /\ Len(batch[p].classes) = batch[p].num_detections
         /\ Len(batch[p].masks) = batch[p].num_detections

\* C28: whenever _initialized is set, both yolo and maskrcnn are keys of
\* _instances and both instances report is_loaded(); so a get_model call that
\* reaches the lookup once initialization has succeeded takes neither the
\* 'model type not available' nor the 'model is not loaded' branch: it
\* returns the stored instance.
C28_InitializedImpliesLoaded ==
  _initialized
    => /\ DOMAIN _instances = ModelTypes
       /\ \A m \in ModelTypes : is_loaded(heap[_instances[m]])
       /\ \A p \in Tasks :
            pc[p] = "gm_lookup"
              => GetModelResult(model_type[p][1], _instances, heap).kind = "handle"

\* The registry is initialized and a get_model call for Mask R-CNN, which
\* found the registry uninitialized and initialized it, has returned the
\* stored instance.
C28_Witness ==
  /\ _initialized
  /\ \E p \in Tasks :
       /\ op[p] = "get_model" /\ pc[p] = "done"
       /\ ~startedInit[p]
       /\ model_type[p] = Some(MASKRCNN)
       /\ ret[p].kind = "handle"
       /\ ret[p].obj = _instances[MASKRCNN]

\* C29: a negative class index is never silently mapped to a label: a
\* request on /predict or /predict/visualize whose batch holds a class
\* index below zero is answered with an error.  (Stated for batches that
\* have a mask for every box, so that each detection is formatted or drawn.)
C29_NegativeClassFails ==
  \A p \in Procs :
    (/\ pc[p] = "done"
     /\ op[p] \in {"predict", "predict_visualize"}
     /\ batch[p].kind = "batch"
     /\ Len(batch[p].masks) = batch[p].num_detections
     /\ \E i \in 1 .. Len(batch[p].classes) : batch[p].classes[i] < 0)
      => status[p] >= 400

\* C30: the handlers validate in the order empty-file check, image decoding,
\* model resolution, inference: an upload that is not empty and cannot be
\* decoded is answered with 400 'Invalid image format', whatever the ?model=
\* parameter, after one call of the decoder and before anything is done
\* about the model: no model type has been parsed, get_model has not been
\* called (nothing was initialized or loaded for the request) and no
\* predictor has run.
C30_UndecodableImageRejected ==
  \A p \in Procs :
    upload[p] = "bad"
      => /\ op[p] \in {"predict", "predict_visualize"}
         /\ pc[p] = "done"
         /\ status[p] = 400
         /\ detail[p] = "Invalid image format: "
         /\ decodeCalls[p] = 1
         /\ model_type[p] = None
         /\ ret[p] = NoRet
         /\ callLoads[p] = 0
         /\ predictCalls[p] = 0
         /\ batch[p] = NoBatch

\* A request on /predict with an undecodable body and a ?model= parameter
\* that names no model has been answered with the image error, while the
\* registry is still uninitialized and nothing has been loaded.
C30_Witness ==
  \E p \in Procs :
    /\ upload[p] = "bad"
    /\ op[p] = "predict"
    /\ arg[p] = Some("bogus")
    /\ status[p] = 400
    /\ detail[p] = "Invalid image format: "
    /\ ~_initialized
    /\ \A m \in ModelTypes : loadCalls[m] = 0

====
